---- MODULE Spec2Model ----
(***************************************************************************)
(* A model of spectool's conformance-test pipeline:                        *)
(*   - conformance::Tests::compile   (src/conformance/test.rs)             *)
(*   - conformance::test::Runner     (src/conformance/test/runner.rs)      *)
(*   - the `test` subcommand's loop  (src/command/test.rs)                 *)
(*   - shell::substitute             (src/shell.rs)                        *)
(*                                                                         *)
(* Representation.                                                         *)
(*   text      a sequence of tokens, a token being a sequence of strings:  *)
(*             <<"{">>, <<"}">>, <<",">> and members <<key, value>> are    *)
(*             the JSON tokens, any other token is opaque text.            *)
(*   Option    <<>> is None, <<v>> is Some(v).                             *)
(*   path      a sequence of components, relative to the root directory;   *)
(*             a file name holding `/` has several components.             *)
(*   tree      a function from paths to entries; <<>> is the directory     *)
(*             itself, and a tree with an empty domain does not exist.     *)
(*   string    where characters matter (substitute), a sequence of         *)
(*             one-character strings.                                      *)
(***************************************************************************)
EXTENDS Integers, Sequences, FiniteSets, TLC

VARIABLES contents, force, template, fs, pc, err, tests, runner, i,
          scratch, input_file, command, invoked, previous

vars == <<contents, force, template, fs, pc, err, tests, runner, i,
          scratch, input_file, command, invoked, previous>>

(***************************************************************************)
(* Bounds of the model.                                                    *)
(***************************************************************************)
MaxTests == 2

MaxResources == 2

MaxPrior == 2

MaxExtract == 2

MaxPieces == 2

(***************************************************************************)
(* Option and sequence helpers.                                            *)
(***************************************************************************)
None == <<>>

Some(v) == <<v>>

SeqsUpTo(S, n) == UNION {[1..k -> S] : k \in 0..n}

RECURSIVE Concat(_)
Concat(ss) == IF ss = <<>> THEN <<>> ELSE Head(ss) \o Concat(Tail(ss))

IsPrefix(s, t) == Len(s) <= Len(t) /\ SubSeq(t, 1, Len(s)) = s

(***************************************************************************)
(* JSON: serde_json's parser and pretty printer on the token level.        *)
(***************************************************************************)
LBRACE == <<"{">>

RBRACE == <<"}">>

COMMA == <<",">>

\* The scalars the model's JSON knows; any other member value is a syntax error.
JsonBools == {"true", "false"}

JsonNumbers == {"1", "2"}

JsonStrings == {"\"t\""}

JsonScalars == JsonBools \cup JsonNumbers \cup JsonStrings

\* serde_json::Map is a BTreeMap: members are kept in key order.
KeyOrder == <<"bogus", "fail", "return_code", "target", "x", "y">>

IsMember(t) == Len(t) = 2 /\ t[2] \in JsonScalars

\* The text is `{`, members separated by `,`, `}`.
JsonSyntaxOk(text) ==
    /\ Len(text) >= 2
    /\ text[1] = LBRACE
    /\ text[Len(text)] = RBRACE
    /\ \/ Len(text) = 2
       \/ /\ Len(text) % 2 = 1
          /\ \A k \in 2..(Len(text) - 1) :
                IF k % 2 = 0 THEN IsMember(text[k]) ELSE text[k] = COMMA

JsonMembers(text) == [k \in 1..((Len(text) - 1) \div 2) |-> text[2 * k]]

\* The value of a key: the last member with that key wins.
LastValue(members, key) ==
    LET ks == {k \in 1..Len(members) : members[k][1] = key}
    IN  members[CHOOSE k \in ks : \A l \in ks : l <= k][2]

RECURSIVE SortedMembers(_, _)
SortedMembers(members, keys) ==
    IF keys = <<>> THEN <<>>
    ELSE (IF \E k \in 1..Len(members) : members[k][1] = Head(keys)
          THEN << <<Head(keys), LastValue(members, Head(keys))>> >>
          ELSE <<>>) \o SortedMembers(members, Tail(keys))

\* str::parse::<Value>: Ok(value) or Err; a value is its members in key order.
FromStrValue(text) ==
    IF JsonSyntaxOk(text)
    THEN [ok |-> TRUE, value |-> SortedMembers(JsonMembers(text), KeyOrder)]
    ELSE [ok |-> FALSE, value |-> <<>>]

RECURSIVE JoinComma(_)
JoinComma(members) ==
    IF members = <<>> THEN <<>>
    ELSE IF Len(members) = 1 THEN members
    ELSE <<Head(members), COMMA>> \o JoinComma(Tail(members))

\* serde_json::to_string_pretty of a value.
to_string_pretty(value) == <<LBRACE>> \o JoinComma(value) \o <<RBRACE>>

(***************************************************************************)
(* Config (deny_unknown_fields, every field but `target` defaulted).       *)
(***************************************************************************)
ConfigFields ==
    {"dependencies", "exclude_output", "fail", "return_code", "tags", "target"}

DefaultConfig ==
    [dependencies |-> <<>>, exclude_output |-> <<>>, fail |-> FALSE,
     return_code |-> "0", tags |-> <<>>, target |-> None]

\* The member values a field accepts (the arrays have no scalar form).
FieldAccepts(key, value) ==
    CASE key = "fail" -> value \in JsonBools
      [] key = "return_code" -> value \in JsonNumbers
      [] key = "target" -> value \in JsonStrings
      [] OTHER -> FALSE

ConfigOf(members) ==
    LET has(key) == \E k \in 1..Len(members) : members[k][1] = key
    IN  [dependencies |-> <<>>,
         exclude_output |-> <<>>,
         fail |-> has("fail") /\ LastValue(members, "fail") = "true",
         return_code |-> IF has("return_code")
                         THEN LastValue(members, "return_code") ELSE "0",
         tags |-> <<>>,
         target |-> IF has("target")
                    THEN Some(LastValue(members, "target")) ELSE None]

\* serde_json::from_str::<Config>: a syntax error, an unknown field, a
\* duplicate field or a value of the wrong type is an Err.
FromStrConfig(text) ==
    LET members == JsonMembers(text)
        good ==
            /\ JsonSyntaxOk(text)
            /\ \A k \in 1..Len(members) :
                  /\ members[k][1] \in ConfigFields
                  /\ FieldAccepts(members[k][1], members[k][2])
                  /\ \A l \in 1..Len(members) :
                        members[l][1] = members[k][1] => l = k
    IN  IF good THEN [ok |-> TRUE, value |-> ConfigOf(members)]
        ELSE [ok |-> FALSE, value |-> DefaultConfig]

(***************************************************************************)
(* The Extractor.  CONFORMANCE_TEST_REGEX is modelled by its matches: the  *)
(* document is the sequence of its matched blocks, each a Captures with    *)
(* groups 1..5 (file name, source, input, output, config); groups 1 and 2  *)
(* are not optional in the pattern, groups 3..5 are.                       *)
(***************************************************************************)
Captures(file_name, src, input, output, config) ==
    <<Some(file_name), Some(src), input, output, config>>

required_string(captures, index) ==
    IF captures[index] = None THEN [ok |-> FALSE, value |-> <<>>]
    ELSE [ok |-> TRUE, value |-> captures[index][1]]

optional_json_group(captures, index) ==
    IF captures[index] = None THEN None
    ELSE LET parsed == FromStrValue(captures[index][1])
         IN  IF parsed.ok THEN Some(parsed.value) ELSE None

\* optional_group as lenient as optional_json_group: a parse error is None.
optional_group_lenient(captures, index) ==
    IF captures[index] = None THEN [ok |-> TRUE, value |-> None]
    ELSE LET parsed == FromStrConfig(captures[index][1])
         IN  IF parsed.ok THEN [ok |-> TRUE, value |-> Some(parsed.value)]
             ELSE [ok |-> TRUE, value |-> None]

optional_group(captures, index) ==
    IF captures[index] = None THEN [ok |-> TRUE, value |-> None]
    ELSE LET parsed == FromStrConfig(captures[index][1])
         IN  IF parsed.ok THEN [ok |-> TRUE, value |-> Some(parsed.value)]
             ELSE [ok |-> FALSE, value |-> None]

\* A Test built with its path already set.
Test_with_path(file_name, src, input, output, config) ==
    [path |-> Some(file_name), file_name |-> file_name, src |-> src,
     input |-> input, output |-> output, config |-> config]

Test(file_name, src, input, output, config) ==
    [path |-> None, file_name |-> file_name, src |-> src, input |-> input,
     output |-> output, config |-> config]

\* build_conformance_test with the input and output parsed as strictly as
\* the config: a payload that is not JSON is an error.
build_conformance_test_strict(captures) ==
    LET file_name == required_string(captures, 1)
        src == required_string(captures, 2)
        input == optional_json_group(captures, 3)
        output == optional_json_group(captures, 4)
        config == optional_group(captures, 5)
    IN  IF /\ file_name.ok /\ src.ok /\ config.ok
           /\ (captures[3] # None => input # None)
           /\ (captures[4] # None => output # None)
        THEN [ok |-> TRUE,
              test |-> Test(file_name.value, src.value, input, output,
                            IF config.value = None THEN DefaultConfig
                            ELSE config.value[1])]
        ELSE [ok |-> FALSE,
              test |-> Test(<<>>, <<>>, None, None, DefaultConfig)]

build_conformance_test(captures) ==
    LET file_name == required_string(captures, 1)
        src == required_string(captures, 2)
        input == optional_json_group(captures, 3)
        output == optional_json_group(captures, 4)
        config == optional_group(captures, 5)
    IN  IF file_name.ok /\ src.ok /\ config.ok
        THEN [ok |-> TRUE,
              test |-> Test(file_name.value, src.value, input, output,
                            IF config.value = None THEN DefaultConfig
                            ELSE config.value[1])]
        ELSE [ok |-> FALSE,
              test |-> Test(<<>>, <<>>, None, None, DefaultConfig)]

\* Tests::compile yielding the blocks last to first.
Tests_compile_reversed(document) ==
    LET n == Len(document.tests)
        built == [k \in 1..n |-> build_conformance_test(document.tests[n + 1 - k])]
    IN  IF \A k \in 1..n : built[k].ok
        THEN [ok |-> TRUE, tests |-> [k \in 1..n |-> built[k].test]]
        ELSE [ok |-> FALSE, tests |-> <<>>]

\* Tests::compile: the blocks in document order, collected into a Result.
Tests_compile(document) ==
    LET built == [k \in 1..Len(document.tests) |->
                     build_conformance_test(document.tests[k])]
    IN  IF \A k \in 1..Len(built) : built[k].ok
        THEN [ok |-> TRUE, tests |-> [k \in 1..Len(built) |-> built[k].test]]
        ELSE [ok |-> FALSE, tests |-> <<>>]

set_path(test, path) == [test EXCEPT !.path = Some(path)]

\* Resources::compile: the resource blocks in document order.
Resources_compile(document) ==
    [ok |-> TRUE, resources |-> document.resources]

(***************************************************************************)
(* The file system: a directory tree, and the std::fs calls on it.         *)
(***************************************************************************)
Dir == [kind |-> "dir", data |-> <<>>]

File(data) == [kind |-> "file", data |-> data]

NoTree == [p \in {} |-> Dir]

Parent(p) == SubSeq(p, 1, Len(p) - 1)

Join(base, name) == base \o name

Exists(tree, p) == p \in DOMAIN tree

IsDir(tree, p) == p \in DOMAIN tree /\ tree[p].kind = "dir"

IsFile(tree, p) == p \in DOMAIN tree /\ tree[p].kind = "file"

\* read_dir: the entries directly under p.
ReadDir(tree, p) ==
    {q \in DOMAIN tree : Len(q) = Len(p) + 1 /\ IsPrefix(p, q)}

\* remove_file and remove_dir_all of every path in ps.
RemoveAll(tree, ps) ==
    [q \in {q \in DOMAIN tree : \A p \in ps : ~IsPrefix(p, q)} |-> tree[q]]

\* create_dir_all succeeds when no prefix of p is a file.
CanCreateDirAll(tree, p) ==
    \A k \in 0..Len(p) : ~IsFile(tree, SubSeq(p, 1, k))

CreateDirAll(tree, p) ==
    LET made == {SubSeq(p, 1, k) : k \in 0..Len(p)}
    IN  [q \in DOMAIN tree \cup made |-> IF q \in DOMAIN tree THEN tree[q] ELSE Dir]

\* std::fs::write creates or truncates the file; its directory must exist.
CanWrite(tree, p) ==
    /\ p # <<>>
    /\ IsDir(tree, Parent(p))
    /\ ~IsDir(tree, p)

Write(tree, p, data) ==
    [q \in DOMAIN tree \cup {p} |-> IF q = p THEN File(data) ELSE tree[q]]

(***************************************************************************)
(* Runner::compile.                                                        *)
(***************************************************************************)
DataDir == <<"data">>

\* ensure_empty_dir removing the entries whatever `force` is.
ensure_empty_dir_unasked(tree, frc) ==
    LET created == IF Exists(tree, <<>>) THEN tree ELSE CreateDirAll(tree, <<>>)
        entries == ReadDir(created, <<>>)
    IN  (IF Exists(tree, <<>>) THEN {} ELSE {[fs |-> tree, err |-> "creating conformance tests directory"]})
        \cup
        (IF ~IsDir(created, <<>>)
         THEN {[fs |-> created, err |-> "not a directory"]}
         ELSE {[fs |-> created, err |-> "reading conformance tests directory"]}
              \cup
              (IF entries = {} THEN {[fs |-> created, err |-> ""]}
               ELSE {[fs |-> RemoveAll(created, removed),
                      err |-> IF removed = entries THEN "" ELSE "removing entry"] :
                        removed \in SUBSET entries}))

\* ensure_empty_dir: the outcomes of one call, [fs, err]; err = "" is Ok(()).
\* Every std::fs call can fail (err names the call); a failing removal leaves the entries
\* that were not yet removed.
ensure_empty_dir(tree, frc) ==
    LET created == IF Exists(tree, <<>>) THEN tree ELSE CreateDirAll(tree, <<>>)
        entries == ReadDir(created, <<>>)
    IN  (IF Exists(tree, <<>>) THEN {} ELSE {[fs |-> tree, err |-> "creating conformance tests directory"]})
        \cup
        (IF ~IsDir(created, <<>>)
         THEN {[fs |-> created, err |-> "not a directory"]}
         ELSE {[fs |-> created, err |-> "reading conformance tests directory"]}
              \cup
              (IF entries = {} THEN {[fs |-> created, err |-> ""]}
               ELSE IF frc
               THEN {[fs |-> RemoveAll(created, removed),
                      err |-> IF removed = entries THEN "" ELSE "removing entry"] :
                        removed \in SUBSET entries}
               ELSE {[fs |-> created, err |-> "existing entries"]}))

\* The compile call fails: nothing is returned.
Bail(message) ==
    /\ pc' = "compile_failed"
    /\ err' = message

\* Step 1: ensure_empty_dir(&root_dir, force)?
EnsureEmptyDir ==
    /\ pc = "ensure_empty_dir"
    /\ \E outcome \in ensure_empty_dir(fs, force) :
          /\ fs' = outcome.fs
          /\ IF outcome.err = ""
             THEN pc' = "data_dir" /\ err' = err
             ELSE Bail(outcome.err)
    /\ UNCHANGED <<contents, force, template, previous, tests, runner, i, scratch,
                   input_file, command, invoked>>

\* CreateDataDir without the create_dir_all: the data directory is taken to
\* be there.
CreateDataDir_skipped ==
    /\ pc = "data_dir"
    /\ fs' = fs
    /\ IF Resources_compile(contents).ok
       THEN pc' = "resources" /\ err' = err
       ELSE Bail("parsing resource")
    /\ i' = 1
    /\ UNCHANGED <<contents, force, template, previous, tests, runner, scratch,
                   input_file, command, invoked>>

\* Step 2: create the data directory unless it exists, then
\* Resources::compile(contents)?
CreateDataDir ==
    /\ pc = "data_dir"
    /\ \/ /\ fs' = IF Exists(fs, DataDir) THEN fs ELSE CreateDirAll(fs, DataDir)
          /\ Exists(fs, DataDir) \/ CanCreateDirAll(fs, DataDir)
          /\ IF Resources_compile(contents).ok
             THEN pc' = "resources" /\ err' = err
             ELSE Bail("parsing resource")
       \/ /\ ~Exists(fs, DataDir)
          /\ fs' = fs
          /\ Bail("creating the data directory")
    /\ i' = 1
    /\ UNCHANGED <<contents, force, template, previous, tests, runner, scratch,
                   input_file, command, invoked>>

\* Step 3, one turn of the loop over the resources.
WriteResource ==
    /\ pc = "resources"
    /\ i <= Len(Resources_compile(contents).resources)
    /\ LET resource == Resources_compile(contents).resources[i]
           file_path == Join(DataDir, resource.filename)
       IN  IF Exists(fs, file_path)
           THEN fs' = fs /\ i' = i /\ Bail("duplicate resource")
           ELSE \/ /\ CanWrite(fs, file_path)
                   /\ fs' = Write(fs, file_path, resource.src)
                   /\ i' = i + 1
                   /\ UNCHANGED <<pc, err>>
                \/ /\ fs' = fs /\ i' = i /\ Bail("writing resource file")
    /\ UNCHANGED <<contents, force, template, previous, tests, runner, scratch,
                   input_file, command, invoked>>

\* Step 4: conformance::Tests::compile(contents)?
CompileTests ==
    /\ pc = "resources"
    /\ i > Len(Resources_compile(contents).resources)
    /\ LET compiled == Tests_compile(contents)
       IN  /\ tests' = compiled.tests
           /\ IF compiled.ok
              THEN pc' = "write_tests" /\ err' = err
              ELSE Bail("parsing configuration")
    /\ i' = 1
    /\ UNCHANGED <<contents, force, template, previous, fs, runner, scratch,
                   input_file, command, invoked>>

\* WriteTest without the exists() check: std::fs::write truncates.
WriteTest_overwrites ==
    /\ pc = "write_tests"
    /\ i <= Len(tests)
    /\ LET file_path == Join(<<>>, tests[i].file_name)
       IN  \/ /\ CanWrite(fs, file_path)
              /\ fs' = Write(fs, file_path, tests[i].src)
              /\ tests' = [tests EXCEPT ![i] = set_path(tests[i], file_path)]
              /\ i' = i + 1
              /\ UNCHANGED <<pc, err>>
           \/ /\ UNCHANGED <<fs, tests, i>>
              /\ Bail("writing conformance test")
    /\ UNCHANGED <<contents, force, template, previous, runner, scratch, input_file,
                   command, invoked>>

\* Step 4, one turn of the loop over tests_mut().
WriteTest ==
    /\ pc = "write_tests"
    /\ i <= Len(tests)
    /\ LET file_path == Join(<<>>, tests[i].file_name)
       IN  IF Exists(fs, file_path)
           THEN UNCHANGED <<fs, tests, i>> /\ Bail("duplicate test")
           ELSE \/ /\ CanWrite(fs, file_path)
                   /\ fs' = Write(fs, file_path, tests[i].src)
                   /\ tests' = [tests EXCEPT ![i] = set_path(tests[i], file_path)]
                   /\ i' = i + 1
                   /\ UNCHANGED <<pc, err>>
                \/ /\ UNCHANGED <<fs, tests, i>>
                   /\ Bail("writing conformance test")
    /\ UNCHANGED <<contents, force, template, previous, runner, scratch, input_file,
                   command, invoked>>

(***************************************************************************)
(* command::test::main from Runner::compile's return on.                   *)
(***************************************************************************)
NoScratch == [exists |-> FALSE, files |-> <<>>]

EmptyScratch == [exists |-> TRUE, files |-> <<>>]

\* Ok(Self { root_dir, tests }), and main's tempdir() for the workdir.
ReturnRunner ==
    /\ pc = "write_tests"
    /\ i > Len(tests)
    /\ runner' = Some([root_dir |-> <<>>, tests |-> tests])
    /\ scratch' = EmptyScratch
    /\ pc' = "run"
    /\ i' = 1
    /\ UNCHANGED <<contents, force, template, previous, fs, err, tests, input_file,
                   command, invoked>>

RunnerTests == runner[1].tests

\* An unwrap() of an Err, a failed assert!, or an unwrap() of a None.
Panic(message) ==
    /\ pc' = "panicked"
    /\ err' = message

\* Recreate without the remove_dir_all: create_dir_all of a directory that
\* exists keeps what it holds.
Recreate_keeps_files ==
    /\ pc = "run"
    /\ i <= Len(RunnerTests)
    /\ \/ /\ scratch' = [scratch EXCEPT !.exists = TRUE]
          /\ pc' = "copy"
          /\ err' = err
       \/ /\ scratch' = scratch
          /\ Panic("create_dir_all")
    /\ UNCHANGED <<contents, force, template, previous, fs, tests, runner, i,
                   input_file, command, invoked>>

\* (1) remove_dir_all(&workdir).unwrap(); create_dir_all(&workdir).unwrap();
Recreate ==
    /\ pc = "run"
    /\ i <= Len(RunnerTests)
    /\ \/ /\ scratch.exists
          /\ scratch' = EmptyScratch
          /\ pc' = "copy"
          /\ err' = err
       \/ /\ scratch' = scratch
          /\ Panic("remove_dir_all")
       \/ /\ scratch.exists
          /\ scratch' = NoScratch
          /\ Panic("create_dir_all")
    /\ UNCHANGED <<contents, force, template, previous, fs, tests, runner, i,
                   input_file, command, invoked>>

\* The file name of an entry.
FileName(p) == p[Len(p)]

\* std::fs::copy of the entries ps of the tree into the files of a directory.
CopyInto(files, tree, ps) ==
    LET names == {FileName(p) : p \in ps}
    IN  [n \in DOMAIN files \cup names |->
            IF n \in names
            THEN tree[CHOOSE p \in ps : FileName(p) = n].data
            ELSE files[n]]

\* copy_directory: the outcomes of one call, [files, err]; a failing read_dir
\* or copy leaves the entries copied so far, a directory among the entries
\* fails the assertion.
copy_directory(tree, source, files) ==
    LET entries == ReadDir(tree, source)
    IN  {[files |-> files, err |-> "read_dir"]}
        \cup
        (IF ~IsDir(tree, source) THEN {}
         ELSE {[files |-> CopyInto(files, tree, copied),
                err |-> IF copied = entries THEN ""
                        ELSE IF \E p \in entries \ copied : IsDir(tree, p)
                        THEN "only files are supported"
                        ELSE "copy"] :
                 copied \in {c \in SUBSET entries :
                               \A p \in c : IsFile(tree, p)}})

\* (2) copy_directory(&runner.data_dir(), &workdir).unwrap();
CopyData ==
    /\ pc = "copy"
    /\ \E outcome \in copy_directory(fs, Join(runner[1].root_dir, DataDir),
                                     scratch.files) :
          /\ scratch' = [scratch EXCEPT !.files = outcome.files]
          /\ IF outcome.err = ""
             THEN pc' = "input" /\ err' = err
             ELSE Panic(outcome.err)
    /\ UNCHANGED <<contents, force, template, previous, fs, tests, runner, i,
                   input_file, command, invoked>>

InputsJson == "inputs.json"

\* The text create_input_json writes for a test.
InputText(test) ==
    IF test.input = None THEN <<>> ELSE to_string_pretty(test.input[1])

\* (3) create_input_json(test, &workdir).unwrap();
CreateInputJson ==
    /\ pc = "input"
    /\ \/ /\ scratch' = [scratch EXCEPT !.files =
                            (InputsJson :> InputText(RunnerTests[i])) @@ @]
          /\ input_file' = Some(InputsJson)
          /\ pc' = "substitute"
          /\ err' = err
       \/ /\ UNCHANGED <<scratch, input_file>>
          /\ Panic("writing inputs.json")
    /\ UNCHANGED <<contents, force, template, previous, fs, tests, runner, i, command,
                   invoked>>

(***************************************************************************)
(* shell::substitute, on characters.                                       *)
(***************************************************************************)
PathPlaceholder == <<"~", "{", "p", "a", "t", "h", "}">>

InputPlaceholder == <<"~", "{", "i", "n", "p", "u", "t", "}">>

\* str::replace: every non-overlapping match of `from`, left to right.
RECURSIVE replace(_, _, _)
replace(s, from, to) ==
    IF Len(s) < Len(from) THEN s
    ELSE IF SubSeq(s, 1, Len(from)) = from
    THEN to \o replace(SubSeq(s, Len(from) + 1, Len(s)), from, to)
    ELSE <<Head(s)>> \o replace(Tail(s), from, to)

substitute(cmd, path, input) ==
    replace(replace(cmd, PathPlaceholder, path), InputPlaceholder, input)

\* The characters of the names the model uses.
Chars(name) ==
    CASE name = "a" -> <<"a">>
      [] name = "b" -> <<"b">>
      [] name = "x" -> <<"x">>
      [] name = "data" -> <<"d", "a", "t", "a">>
      [] name = "inputs.json" -> <<"i", "n", "p", "u", "t", "s", ".", "j", "s", "o", "n">>
      [] name = "~{input}" -> InputPlaceholder
      [] name = "~{path}" -> PathPlaceholder

\* The root directory and the workdir, as Path::display() shows them.
RootDisplay == <<"/", "r">>

WorkDisplay == <<"/", "w">>

\* Path::display() of base.join(p).
Display(base, p) == base \o Concat([k \in 1..Len(p) |-> <<"/">> \o Chars(p[k])])

\* (4) substitute().command(..).path(test.path().unwrap()).input(input_file)
Substitute ==
    /\ pc = "substitute"
    /\ IF RunnerTests[i].path = None
       THEN command' = command /\ Panic("unwrap on None")
       ELSE /\ command' = substitute(template,
                                     Display(RootDisplay, RunnerTests[i].path[1]),
                                     Display(WorkDisplay, <<input_file[1]>>))
            /\ pc' = "execute"
            /\ err' = err
    /\ UNCHANGED <<contents, force, template, previous, fs, tests, runner, i, scratch,
                   input_file, invoked>>

\* What the engine leaves in the workdir.
Junk == << <<"junk">> >>

JunkName == "out"

\* (5) execute(command).unwrap(): bash runs the command, whatever its exit
\* status; the engine may write a file into the workdir (`wrote`).
Execute ==
    /\ pc = "execute"
    /\ \/ /\ \E wrote \in {None} \cup {Some(n) : n \in DOMAIN scratch.files \cup {JunkName}} :
                /\ invoked' = Append(invoked, [test |-> RunnerTests[i],
                                               command |-> command,
                                               wrote |-> wrote])
                /\ scratch' = IF wrote = None THEN scratch
                              ELSE [scratch EXCEPT !.files = (wrote[1] :> Junk) @@ @]
          /\ pc' = "run"
          /\ i' = i + 1
          /\ err' = err
       \/ /\ UNCHANGED <<invoked, scratch, i>>
          /\ Panic("running engine command")
    /\ UNCHANGED <<contents, force, template, previous, fs, tests, runner, input_file,
                   command>>

\* The loop is over: Ok(()).
Done ==
    /\ pc = "run"
    /\ i > Len(RunnerTests)
    /\ pc' = "done"
    /\ UNCHANGED <<contents, force, template, previous, fs, err, tests, runner, i,
                   scratch, input_file, command, invoked>>

(***************************************************************************)
(* The documents, directories and command lines of the model.              *)
(***************************************************************************)
Src1 == << <<"s1">> >>

Src2 == << <<"s2">> >>

Old == << <<"old">> >>

ObjX == <<LBRACE, <<"x", "1">>, RBRACE>>

ObjYXX == <<LBRACE, <<"y", "1">>, COMMA, <<"x", "2">>, COMMA, <<"x", "1">>, RBRACE>>

Unterminated == <<LBRACE, <<"x", "1">>>>

ConfigFail == <<LBRACE, <<"fail", "true">>, RBRACE>>

ConfigBogus == <<LBRACE, <<"bogus", "1">>, RBRACE>>

TestBlocks ==
    {Captures(<<"a">>, Src1, Some(ObjX), None, None),
     Captures(<<"a">>, Src2, None, None, Some(ConfigFail)),
     Captures(<<"data", "x">>, Src1, Some(Unterminated), None, None),
     Captures(<<"b">>, Src2, Some(ObjYXX), Some(ObjX), None),
     Captures(<<"b">>, Src1, None, None, Some(ConfigBogus))}

ResourceBlocks ==
    {[filename |-> <<"inputs.json">>, src |-> Src1],
     [filename |-> <<"x">>, src |-> Src2],
     [filename |-> <<"x">>, src |-> Old]}

Documents ==
    [tests : SeqsUpTo(TestBlocks, MaxTests),
     resources : SeqsUpTo(ResourceBlocks, MaxResources)]

\* What a root directory can hold before the call.
PriorEntries ==
    {(<<"a">> :> File(Old)),
     (<<"old">> :> File(Old)),
     (<<"data">> :> Dir) @@ (<<"data", "x">> :> File(Old))}

RECURSIVE Merge(_)
Merge(trees) ==
    IF trees = {} THEN NoTree
    ELSE LET t == CHOOSE t \in trees : TRUE IN t @@ Merge(trees \ {t})

PriorRoots ==
    {NoTree, (<<>> :> File(Old))}
    \cup {(<<>> :> Dir) @@ Merge(held) :
            held \in {h \in SUBSET PriorEntries : Cardinality(h) <= MaxPrior}}

CommandLine == <<"e", " ">> \o PathPlaceholder \o <<" ">> \o InputPlaceholder

Init ==
    /\ contents \in Documents
    /\ force \in BOOLEAN
    /\ template = CommandLine
    /\ fs \in PriorRoots
    /\ pc = "ensure_empty_dir"
    /\ err = ""
    /\ tests = <<>>
    /\ runner = None
    /\ i = 1
    /\ scratch = NoScratch
    /\ input_file = None
    /\ command = <<>>
    /\ invoked = <<>>
    /\ previous = None

Next ==
    \/ EnsureEmptyDir
    \/ CreateDataDir
    \/ WriteResource
    \/ CompileTests
    \/ WriteTest
    \/ ReturnRunner
    \/ Recreate
    \/ CopyData
    \/ CreateInputJson
    \/ Substitute
    \/ Execute
    \/ Done

Spec == Init /\ [][Next]_vars

(***************************************************************************)
(* Tests::compile alone, over documents whose blocks carry every           *)
(* combination of input, output and config payloads.                       *)
(***************************************************************************)
Garbage == << <<"oops">> >>

InputPayloads == {None, Some(ObjYXX), Some(Unterminated)}

OutputPayloads == {None, Some(ObjX), Some(Garbage)}

ConfigPayloads == {None, Some(ConfigFail), Some(ConfigBogus), Some(Unterminated)}

ExtractBlocks ==
    {Captures(name, Src1, input, output, config) :
        name \in {<<"a">>, <<"b">>}, input \in InputPayloads,
        output \in OutputPayloads, config \in ConfigPayloads}

InitExtract ==
    /\ contents \in [tests : SeqsUpTo(ExtractBlocks, MaxExtract),
                     resources : {<<>>}]
    /\ force = FALSE
    /\ template = CommandLine
    /\ fs = CreateDirAll(NoTree, DataDir)
    /\ pc = "resources"
    /\ err = ""
    /\ tests = <<>>
    /\ runner = None
    /\ i = 1
    /\ scratch = NoScratch
    /\ input_file = None
    /\ command = <<>>
    /\ invoked = <<>>
    /\ previous = None

NextExtract == CompileTests

SpecExtract == InitExtract /\ [][NextExtract]_vars

(***************************************************************************)
(* substitute alone, over command templates built from pieces and over     *)
(* the paths of materialized tests.                                        *)
(***************************************************************************)
Pieces ==
    {PathPlaceholder, InputPlaceholder, <<"e", " ">>, <<"~", "{">>,
     <<"p", "a", "t", "h", "}">>, <<"~", "{", "i", "n">>, <<"p", "u", "t", "}">>}

Templates == {Concat(pieces) : pieces \in SeqsUpTo(Pieces, MaxPieces)}

SubstNames == {<<"a">>, <<"data", "x">>, <<"~{input}">>, <<"~{path}">>}

InitSubst ==
    /\ contents = [tests |-> <<>>, resources |-> <<>>]
    /\ force = FALSE
    /\ template \in Templates
    /\ \E name \in SubstNames :
          /\ tests = <<set_path(Test(name, Src1, None, None, DefaultConfig),
                                Join(<<>>, name))>>
          /\ fs = Write(CreateDirAll(NoTree, DataDir), name, Src1)
    /\ runner = Some([root_dir |-> <<>>, tests |-> tests])
    /\ pc = "substitute"
    /\ err = ""
    /\ i = 1
    /\ scratch = [exists |-> TRUE, files |-> (InputsJson :> <<>>)]
    /\ input_file = Some(InputsJson)
    /\ command = <<>>
    /\ invoked = <<>>
    /\ previous = None

NextSubst == Substitute

SpecSubst == InitSubst /\ [][NextSubst]_vars

(***************************************************************************)
(* Runner::compile called again on the same root, directly after a call    *)
(* has returned: the tool is run a second time on the same                 *)
(* --conformance-test-dir.  `previous` keeps the Result of the call        *)
(* before: None when there was none, Some("") for Ok, Some(err) for Err.   *)
(***************************************************************************)
CompileAgain ==
    /\ pc \in {"compile_failed", "run"}
    /\ previous' = Some(IF pc = "run" THEN "" ELSE err)
    /\ force' \in BOOLEAN
    /\ pc' = "ensure_empty_dir"
    /\ err' = ""
    /\ tests' = <<>>
    /\ runner' = None
    /\ i' = 1
    /\ scratch' = NoScratch
    /\ UNCHANGED <<contents, template, fs, input_file, command, invoked>>

NextAgain ==
    \/ EnsureEmptyDir
    \/ CreateDataDir
    \/ WriteResource
    \/ CompileTests
    \/ WriteTest
    \/ ReturnRunner
    \/ CompileAgain

SpecAgain == Init /\ [][NextAgain]_vars

(***************************************************************************)
(* Properties.                                                             *)
(***************************************************************************)
RootEntries == ReadDir(fs, <<>>)

Compiled == runner # None

\* C1: Runner::compile with force = false on a root directory that holds at
\* least one entry fails, returns no Runner and leaves every entry under the
\* root (files, subdirectories and their contents) as it was.
C1_NoForceLeavesRootUntouched ==
    [][(pc = "ensure_empty_dir" /\ ~force /\ IsDir(fs, <<>>) /\ RootEntries # {})
          => (pc' = "compile_failed" /\ err' # "" /\ fs' = fs /\ runner' = None)]_vars

\* A compile without force has failed on a root that holds a subdirectory
\* with a file in it.
C1_Witness ==
    /\ pc = "compile_failed"
    /\ err = "existing entries"
    /\ ~force
    /\ IsFile(fs, <<"data", "x">>)
    /\ fs[<<"data", "x">>].data = Old

\* The tests and resources of the document, as the Extractor yields them.
DocTests == Tests_compile(contents).tests

DocResources == Resources_compile(contents).resources

\* C2: after a successful Runner::compile with force = true the root holds
\* exactly one file per test, named by its file_name and holding its src,
\* and data/, which holds exactly one file per resource, named by its
\* filename and holding its src; nothing else is under the root.
C2_ForceLeavesExactlyTheDocument ==
    (Compiled /\ force) =>
        /\ RootEntries = {t.file_name : t \in {DocTests[k] : k \in 1..Len(DocTests)}}
                            \cup {DataDir}
        /\ \A k \in 1..Len(DocTests) :
              /\ IsFile(fs, DocTests[k].file_name)
              /\ fs[DocTests[k].file_name].data = DocTests[k].src
        /\ IsDir(fs, DataDir)
        /\ ReadDir(fs, DataDir) =
              {Join(DataDir, DocResources[k].filename) : k \in 1..Len(DocResources)}
        /\ \A k \in 1..Len(DocResources) :
              /\ IsFile(fs, Join(DataDir, DocResources[k].filename))
              /\ fs[Join(DataDir, DocResources[k].filename)].data = DocResources[k].src
        /\ DOMAIN fs = {<<>>} \cup RootEntries \cup ReadDir(fs, DataDir)

\* Two test blocks share a file name, or two resource blocks a filename.
HasDuplicateNames ==
    \/ \E k, l \in 1..Len(contents.tests) :
          k # l /\ contents.tests[k][1] = contents.tests[l][1]
    \/ \E k, l \in 1..Len(contents.resources) :
          k # l /\ contents.resources[k].filename = contents.resources[l].filename

\* C3: a document with two test blocks of one file_name, or two resource
\* blocks of one filename, never yields a Runner, and while the compile
\* writes resources and tests no entry under the root is overwritten or
\* removed.
C3_UniqueNamesNoOverwrite ==
    /\ [](HasDuplicateNames => ~Compiled)
    /\ [][(pc \in {"resources", "write_tests"})
             => (\A p \in DOMAIN fs : p \in DOMAIN fs' /\ fs'[p] = fs[p])]_vars

\* The second block named `a` was refused and the first one's file is intact.
C3_Witness ==
    /\ pc = "compile_failed"
    /\ err = "duplicate test"
    /\ Len(tests) = 2
    /\ tests[1].file_name = tests[2].file_name
    /\ tests[1].src # tests[2].src
    /\ IsFile(fs, tests[1].file_name)
    /\ fs[tests[1].file_name].data = tests[1].src

DataFiles == ReadDir(fs, Join(runner[1].root_dir, DataDir))

\* C4 as stated: when the engine command is invoked the workdir holds a copy
\* of each file of the data directory, inputs.json, and nothing else.
C4_ScratchIsDataPlusInputs ==
    pc = "execute" =>
        /\ DOMAIN scratch.files = {FileName(p) : p \in DataFiles} \cup {InputsJson}
        /\ \A p \in DataFiles : scratch.files[FileName(p)] = fs[p].data
        /\ \A n \in DOMAIN scratch.files : scratch.files[n] # Junk

\* C4, amended: when the engine command is invoked the workdir holds
\* inputs.json, a copy of each file of the data directory that is not named
\* inputs.json, and nothing else; nothing the previous engine invocation
\* wrote is there.
C4_ScratchIsDataUnderInputs ==
    pc = "execute" =>
        /\ DOMAIN scratch.files = {FileName(p) : p \in DataFiles} \cup {InputsJson}
        /\ \A p \in DataFiles :
              FileName(p) # InputsJson => scratch.files[FileName(p)] = fs[p].data
        /\ scratch.files[InputsJson] = InputText(RunnerTests[i])
        /\ \A n \in DOMAIN scratch.files : scratch.files[n] # Junk

\* The second test is about to run; the first engine invocation had
\* overwritten the workdir's copy of the resource `x`.
C4_Witness ==
    /\ pc = "execute"
    /\ i = 2
    /\ Len(invoked) = 1
    /\ invoked[1].wrote = Some("x")
    /\ "x" \in DOMAIN scratch.files
    /\ IsFile(fs, <<"data", "x">>)

\* The blocks of the document, in document order, by file name and source.
DocumentOrder ==
    [k \in 1..Len(contents.tests) |->
        [file_name |-> contents.tests[k][1][1], src |-> contents.tests[k][2][1]]]

KeysOf(ts) == [k \in 1..Len(ts) |-> [file_name |-> ts[k].file_name, src |-> ts[k].src]]

\* C5: the tests are written and executed in document order, each at most
\* once: the written tests and the engine invocations are prefixes of the
\* document's blocks, the invocations are all of them when the run
\* completes, and after a panic nothing more is invoked.
C5_DocumentOrder ==
    /\ IsPrefix(KeysOf([k \in 1..Len(invoked) |-> invoked[k].test]), DocumentOrder)
    /\ \A k, l \in 1..Len(invoked) :
          invoked[k].test.file_name = invoked[l].test.file_name => k = l
    /\ KeysOf(tests) = SubSeq(DocumentOrder, 1, Len(tests))
    /\ \A k \in 1..Len(tests) :
          tests[k].path # None <=> (k < i \/ pc \notin {"write_tests", "compile_failed"})
    /\ pc = "done" => KeysOf([k \in 1..Len(invoked) |-> invoked[k].test]) = DocumentOrder
    /\ pc = "panicked" => (Len(invoked) = i - 1 /\ ~ENABLED Next)

\* A run of two tests has completed.
C5_Witness ==
    /\ pc = "done"
    /\ Len(invoked) = 2
    /\ invoked[1].test.file_name # invoked[2].test.file_name

\* C6: a test's path is None when Tests::compile returns, is set only by
\* Runner::compile's loop, to root/<file_name> once that file holds the
\* test's src, and never changes; every test of a Runner has a path.
C6_PathSetOnceAfterWrite ==
    /\ [](/\ \A k \in 1..Len(tests) :
               tests[k].path # None =>
                   /\ tests[k].path[1] = Join(<<>>, tests[k].file_name)
                   /\ IsFile(fs, tests[k].path[1])
                   /\ fs[tests[k].path[1]].data = tests[k].src
          /\ Compiled => \A k \in 1..Len(RunnerTests) : RunnerTests[k].path # None)
    /\ [][/\ (pc = "resources" /\ pc' = "write_tests")
               => \A k \in 1..Len(tests') : tests'[k].path = None
          /\ \A k \in 1..Len(tests) :
               tests[k].path # None
                   => (k \in 1..Len(tests') /\ tests'[k].path = tests[k].path)
          /\ (pc # "resources" /\ tests' # tests) => pc = "write_tests"
          /\ Compiled => (runner' = runner)]_vars

\* The loop reads the path of the second test.
C6_Witness ==
    /\ pc = "substitute"
    /\ i = 2
    /\ RunnerTests[2].path = Some(RunnerTests[2].file_name)

\* The payload of a group is there and is not JSON.
NotJson(group) == group # None /\ ~JsonSyntaxOk(group[1])

\* The config payload of a block is one Tests::compile accepts.
ConfigAccepted(captures) == captures[5] = None \/ FromStrConfig(captures[5][1]).ok

\* C7: an input or output payload that is not JSON makes that field of the
\* block's Test None and raises no error: Tests::compile fails only over a
\* config, and it yields one Test per block, with the block's file name and
\* source, and with the input and the output of every block whose payload is
\* JSON.
C7_LenientInputOutput ==
    pc # "resources" =>
        /\ (\A k \in 1..Len(contents.tests) : ConfigAccepted(contents.tests[k]))
              => (pc = "write_tests" /\ Len(tests) = Len(contents.tests))
        /\ pc = "write_tests" =>
              \A k \in 1..Len(contents.tests) :
                 LET captures == contents.tests[k]
                 IN  /\ NotJson(captures[3]) => tests[k].input = None
                     /\ NotJson(captures[4]) => tests[k].output = None
                     /\ (captures[3] # None /\ ~NotJson(captures[3]))
                           => tests[k].input # None
                     /\ (captures[4] # None /\ ~NotJson(captures[4]))
                           => tests[k].output # None
                     /\ tests[k].file_name = captures[1][1]
                     /\ tests[k].src = captures[2][1]

\* The first block's input is not JSON, the second block's input is.
C7_Witness ==
    /\ pc = "write_tests"
    /\ Len(tests) = 2
    /\ contents.tests[1][3] = Some(Unterminated)
    /\ tests[1].input = None
    /\ tests[1].output # None
    /\ tests[2].input # None

\* The config payload of a block is not JSON or holds an unrecognized key.
BadConfig(captures) ==
    /\ captures[5] # None
    /\ \/ ~JsonSyntaxOk(captures[5][1])
       \/ \E k \in 1..Len(JsonMembers(captures[5][1])) :
             JsonMembers(captures[5][1])[k][1] \notin ConfigFields

\* C8: when the config payload of any block is not JSON or holds an
\* unrecognized key, Tests::compile fails and yields no test at all; a
\* block without a config payload gets the default config.
C8_StrictConfigAllOrNothing ==
    pc # "resources" =>
        /\ (\E k \in 1..Len(contents.tests) : BadConfig(contents.tests[k]))
              => (pc = "compile_failed" /\ tests = <<>> /\ ~Compiled)
        /\ pc = "write_tests" =>
              \A k \in 1..Len(contents.tests) :
                 contents.tests[k][5] = None => tests[k].config = DefaultConfig

\* A well-formed block is followed by one with an unrecognized config key.
C8_Witness ==
    /\ pc = "compile_failed"
    /\ Len(contents.tests) = 2
    /\ contents.tests[1][5] = None
    /\ contents.tests[2][5] = Some(ConfigBogus)
    /\ tests = <<>>

\* C9: inputs.json holds the pretty-printed JSON of the test's input, or an
\* empty document serialized as JSON when the test has no input, also when a
\* resource is named inputs.json.
C9_InputsJsonIsJson ==
    pc = "substitute" =>
        /\ InputsJson \in DOMAIN scratch.files
        /\ RunnerTests[i].input # None
              => scratch.files[InputsJson] = to_string_pretty(RunnerTests[i].input[1])
        /\ RunnerTests[i].input = None
              => FromStrValue(scratch.files[InputsJson]).ok

\* A pure two-token replacement: one pass over the template, each
\* placeholder found in it replaced, the inserted text not read again.
RECURSIVE ReplaceBoth(_, _, _)
ReplaceBoth(s, path, input) ==
    IF s = <<>> THEN <<>>
    ELSE IF IsPrefix(PathPlaceholder, s)
    THEN path \o ReplaceBoth(SubSeq(s, Len(PathPlaceholder) + 1, Len(s)), path, input)
    ELSE IF IsPrefix(InputPlaceholder, s)
    THEN input \o ReplaceBoth(SubSeq(s, Len(InputPlaceholder) + 1, Len(s)), path, input)
    ELSE <<Head(s)>> \o ReplaceBoth(Tail(s), path, input)

\* C10: the command is the template with every path placeholder replaced by
\* the test's path and every input placeholder by the inputs.json path; all
\* other text, the inserted text included, is unchanged.
C10_PureTwoTokenReplacement ==
    pc = "execute" =>
        command = ReplaceBoth(template,
                              Display(RootDisplay, RunnerTests[i].path[1]),
                              Display(WorkDisplay, <<input_file[1]>>))

\* The errors of ensure_empty_dir, the directory-preparation step.
PreparationErrors ==
    {"creating conformance tests directory", "not a directory",
     "reading conformance tests directory", "removing entry", "existing entries"}

DataDirError == "creating the data directory"

\* The compile call has returned, Ok or Err.
Returned == pc \in {"compile_failed", "run"}

\* C11 as stated: a compile call that got past ensure_empty_dir leaves the
\* root holding at least data/, however it ends, and a call with
\* force = false that directly follows it fails with the existing-entries
\* error.
C11_PastPreparationLeavesData ==
    /\ (Returned /\ err \notin PreparationErrors) => IsDir(fs, DataDir)
    /\ (/\ previous # None
        /\ previous[1] \notin PreparationErrors
        /\ ~force
        /\ pc # "ensure_empty_dir")
          => (pc = "compile_failed" /\ err = "existing entries")

\* C11, amended: a compile call that got past the creation of data/ leaves
\* the root holding at least data/, however it ends, and a call with
\* force = false that directly follows it fails: with the existing-entries
\* error, or with the error of read_dir when reading the root fails.
C11_PastDataDirLeavesData ==
    /\ (Returned /\ err \notin PreparationErrors \cup {DataDirError})
          => IsDir(fs, DataDir)
    /\ (/\ previous # None
        /\ previous[1] \notin PreparationErrors \cup {DataDirError}
        /\ ~force
        /\ pc # "ensure_empty_dir")
          => /\ pc = "compile_failed"
             /\ err \in {"existing entries", "reading conformance tests directory"}
             /\ IsDir(fs, DataDir)

\* A compile failed in Tests::compile after it wrote a resource and before
\* it wrote any test, and the call without force that followed was refused.
C11_Witness ==
    /\ pc = "compile_failed"
    /\ err = "existing entries"
    /\ ~force
    /\ previous = Some("parsing configuration")
    /\ RootEntries = {DataDir}
    /\ ReadDir(fs, DataDir) # {}

====
